---- MODULE Spec2Model ----
(***************************************************************************)
(* Buffered response writer and response transactions of iris.             *)
(*                                                                         *)
(* One request is modelled: the context's canonical ResponseWriter (Ctx),  *)
(* the clones made for its transactions, the Go memory they share (byte    *)
(* arrays behind the body slices, the header map of the real sink), the    *)
(* scopes that end a transaction, and the real sink.  Two smaller machines *)
(* stand beside it: the pool the writers are taken from and given back to  *)
(* by requests served at the same time, and TransactionErrResult values    *)
(* with their IsFailure method.                                            *)
(***************************************************************************)
EXTENDS Integers, Sequences, FiniteSets, TLC

\* ---------------------------------------------------------------- bounds
MaxTx    == 2       \* transactions one request may begin
MaxBody  == 2       \* longest buffered body, in bytes
MaxSlack == 1       \* spare capacity append may give a new array
MaxOps   == 2       \* writer calls of the handlers, request with few transactions
FewTx    == 1       \* transactions of that request
FewOps   == 1       \* writer calls of the handlers, request with MaxTx transactions
MaxCode  == 401     \* greatest status code given to NewTransactionErrResult
MaxReq   == 2       \* requests served at the same time

\* ------------------------------------------------------ program constants
StatusOK         == 200
StatusBadRequest == 400
contentType      == "Content-Type"
Charset          == "UTF-8"

Ctx     == 1                      \* the context's writer
MostTx  == IF FewTx > MaxTx THEN FewTx ELSE MaxTx
Writers == 1..(MostTx + 1)        \* Ctx and one clone per transaction
Arrays  == 1..(MostTx + 2)        \* backing arrays of []byte values
Zero    == "0"                    \* the zero byte of a fresh array

HeaderNames == {"X", contentType}           \* keys the header map can hold
\* key and value handlers pass to Header().Set
HeaderArgs  == {<<"x", "v">>, <<"x", "x">>, <<"content-type", "v">>}
Data        == {<<"a">>, <<"b">>}           \* arguments of Write / SetBody
Codes       == {200, 503}                   \* arguments of WriteHeader

NilSlice == [a |-> 0, n |-> 0]

VARIABLES
    mem,          \* backing arrays: Arrays -> sequence of bytes (<<>> = free)
    body,         \* w.body       : Writers -> [a: array, n: length]
    statusCode,   \* w.statusCode : Writers -> Int
    headers,      \* w.headers    : Writers -> "nil" | "sink" (map reference)
    beforeFlush,  \* w.beforeFlush: Writers -> sequence of callbacks
    sinkHeader,   \* the real sink's header map
    sinkStatus,   \* status line written to the sink (0 = none yet)
    sinkSent,     \* header map as it was when the status line was written
    sinkBody,     \* bytes written to the sink
    pc,           \* position of the request
    tx,           \* the running transaction
    txCount,      \* transactions begun
    skipped,      \* the context's skip-transactions flag
    skipCalls,    \* invocations of SkipTransactions
    emitted,      \* codes EmitError was invoked with, in order
    prev,         \* the Complete that made a Request scope register its callback
    linkedFailed, \* a transaction of Linked scope has completed with a failure
    lim,          \* how many writer calls and transactions this request makes
    snap,         \* Ctx as observed when the running transaction began
    written,      \* per writer: bytes written since the body was last empty
    ops,          \* writer calls made by handler code
    last,         \* the operation that led to this state
    errResult,    \* a TransactionErrResult value
    answer,       \* what IsFailure answered for it
    rpool,        \* rpool: the idle writers
    inst,         \* the writers rpool.New has made, by instance
    req,          \* per request served at the same time: position, writer, calls
    underline     \* the header map of each request's real sink

requestVars == <<mem, body, statusCode, headers, beforeFlush, sinkHeader,
                 sinkStatus, sinkSent, sinkBody, pc, tx, txCount, skipped,
                 skipCalls, emitted, prev, linkedFailed, lim, snap, written,
                 ops, last>>
resultVars  == <<errResult, answer>>
poolVars    == <<rpool, inst, req, underline>>

vars == <<requestVars, resultVars, poolVars>>

\* ------------------------------------------------- Go slices and header maps

\* textproto.CanonicalMIMEHeaderKey, on the keys and values of this model
Canon(k) ==
    CASE k = "x"            -> "X"
      [] k = "v"            -> "V"
      [] k = "content-type" -> contentType
      [] OTHER              -> k

\* http.Header.Get: first value under the canonical key, "" when there is none
HGet(h, key) ==
    LET c == Canon(key)
    IN  IF c \in DOMAIN h /\ Len(h[c]) > 0 THEN h[c][1] ELSE ""

\* http.Header.Add
HAdd(h, key, v) == [h EXCEPT ![Canon(key)] = Append(@, v)]

\* http.Header.Set
HSet(h, key, v) == [h EXCEPT ![Canon(key)] = <<v>>]

CapOf(m, s) == IF s.a = 0 THEN 0 ELSE Len(m[s.a])

\* the bytes a slice shows
Bytes(m, s) == IF s.a = 0 THEN <<>> ELSE SubSeq(m[s.a], 1, s.n)

\* the lowest free array
FreshArr(m) == CHOOSE a \in Arrays : m[a] = <<>> /\ \A b \in Arrays : m[b] = <<>> => a <= b

\* Go's append(s, data...): in place while the capacity lasts, else into a
\* new array of capacity c
GoAppend(m, s, data, c) ==
    LET need == s.n + Len(data)
        f    == FreshArr(m)
    IN  IF Len(data) = 0 THEN [mem |-> m, sl |-> s]
        ELSE IF need <= CapOf(m, s)
        THEN [mem |-> [m EXCEPT ![s.a] =
                         [i \in 1..Len(m[s.a]) |->
                            IF i > s.n /\ i <= need THEN data[i - s.n] ELSE m[s.a][i]]],
              sl  |-> [a |-> s.a, n |-> need]]
        ELSE [mem |-> [m EXCEPT ![f] =
                         [i \in 1..c |->
                            IF i <= s.n THEN m[s.a][i]
                            ELSE IF i <= need THEN data[i - s.n] ELSE Zero]],
              sl  |-> [a |-> f, n |-> need]]

\* capacities append may choose for a result of length need
NewCaps(need) == need..(need + MaxSlack)

\* arrays no writer refers to are reclaimed
GC(m, b) == [a \in Arrays |-> IF \E w \in Writers : b[w].a = a THEN m[a] ELSE <<>>]

\* ------------------------------------------------------ ResponseWriter

\* the fields the writer methods read and write
Store == [mem |-> mem, body |-> body, statusCode |-> statusCode,
          headers |-> headers, sinkHeader |-> sinkHeader,
          sinkStatus |-> sinkStatus, sinkBody |-> sinkBody]

Write(st, w, contents, c) ==
    LET r == GoAppend(st.mem, st.body[w], contents, c)
    IN  [st EXCEPT !.mem = r.mem, !.body[w] = r.sl]

\* what Write returns: len(w.body) and a nil error
WriteReturn(st, w) == [n |-> st.body[w].n, err |-> "nil"]

\* w.body = []byte(s): a new array holding s
setBodyString(st, w, s, c) ==
    LET r == GoAppend(st.mem, NilSlice, s, c)
    IN  [st EXCEPT !.mem = r.mem, !.body[w] = r.sl]

\* w.body = b, b a slice of the caller
SetBody(st, w, b) ==
    LET r == GoAppend(st.mem, NilSlice, b, Len(b))
    IN  [st EXCEPT !.mem = r.mem, !.body[w] = r.sl]

ResetBody(st, w) == [st EXCEPT !.body[w].n = 0]

ResetHeaders(st, w) == [st EXCEPT !.headers[w] = "sink"]

Reset(st, w) ==
    ResetBody([ResetHeaders(st, w) EXCEPT !.statusCode[w] = 0], w)

\* a WriteHeader that is not buffered: the code goes to the sink at once
WriteHeaderThrough(st, w, code) ==
    [st EXCEPT !.statusCode[w] = code, !.sinkStatus = code]

WriteHeader(st, w, code) == [st EXCEPT !.statusCode[w] = code]

\* w.Header().Set(k, v): the map w.headers refers to is the sink's
HeaderSet(st, w, k, v) ==
    IF st.headers[w] = "sink" THEN [st EXCEPT !.sinkHeader = HSet(@, k, v)] ELSE st

clone(st, w, wc) ==
    [st EXCEPT !.statusCode[wc] = st.statusCode[w],
               !.headers[wc]    = st.headers[w],
               !.body[wc]       = st.body[w]]

\* the header loop of writeTo for one key: values are looked up in the target
\* by VALUE (to.headers.Get(v)) and added under the key
RECURSIVE MergeValues(_, _, _, _)
MergeValues(h, k, values, i) ==
    IF i > Len(values) THEN h
    ELSE MergeValues(IF HGet(h, values[i]) = "" THEN HAdd(h, k, values[i]) ELSE h,
                     k, values, i + 1)

\* the range over w.headers, keys visited in the given order
RECURSIVE MergeHeaders(_, _, _)
MergeHeaders(h, order, j) ==
    IF j > Len(order) THEN h
    ELSE MergeHeaders(MergeValues(h, order[j], h[order[j]], 1), order, j + 1)

\* the comparison of writeTo turned around
MergeStatusLower(ws, ts) == IF ws < ts THEN ws ELSE ts

\* the status code writeTo leaves in the target
MergeStatus(ws, ts) == IF ws > ts THEN ws ELSE ts

\* orders in which a range over the header map may visit its keys
KeyOrders == {<<"X", contentType>>, <<contentType, "X">>}

writeTo(st, w, to, order, c) ==
    LET s1 == [st EXCEPT !.statusCode[to] = MergeStatus(st.statusCode[w], @)]
        s2 == IF s1.headers[w] = "sink"
              THEN [s1 EXCEPT !.sinkHeader = MergeHeaders(@, order, 1)]
              ELSE s1
    IN  IF s2.body[w].n > 0
        THEN Write(s2, to, Bytes(s2.mem, s2.body[w]), c)
        ELSE s2

\* the loop of flushResponse that adds w.headers to the sink's Header()
RECURSIVE FlushValues(_, _, _, _)
FlushValues(h, k, values, i) ==
    IF i > Len(values) THEN h ELSE FlushValues(HAdd(h, k, values[i]), k, values, i + 1)

RECURSIVE FlushHeaders(_, _, _)
FlushHeaders(h, order, j) ==
    IF j > Len(order) THEN h
    ELSE FlushHeaders(FlushValues(h, order[j], h[order[j]], 1), order, j + 1)

\* observations of a writer
BodyOf(w)    == Bytes(mem, body[w])
HeaderOf(w)  == IF headers[w] = "sink" THEN sinkHeader ELSE [k \in HeaderNames |-> <<>>]
View(w)      == [body |-> BodyOf(w), statusCode |-> statusCode[w], headers |-> HeaderOf(w)]


\* ------------------------------------------------------ transactions

\* TransactionErrResult{statusCode, reason, contentType}; reason is a byte string
NewTransactionErrResult(code, reason, cType) ==
    [kind |-> "result", statusCode |-> code, reason |-> reason, contentType |-> cType]

\* a plain error value with message msg
PlainError(msg) == [kind |-> "error", statusCode |-> 0, reason |-> msg, contentType |-> ""]

NilError == [kind |-> "nil", statusCode |-> 0, reason |-> <<>>, contentType |-> ""]

\* arguments of Complete
Errs == {NilError, PlainError(<<"g">>),
         NewTransactionErrResult(503, <<"d">>, "json"),
         NewTransactionErrResult(404, <<>>, ""),
         NewTransactionErrResult(200, <<"d">>, "json"),
         NewTransactionErrResult(0, <<>>, "json")}

Scopes == {"Transient", "Request", "Linked"}

\* an IsFailure that takes 400 for a success
IsFailureAbove(err) == err.statusCode > 400

IsFailure(err) == err.statusCode >= 400

\* a Complete that takes the status code of a TransactionErrResult as it is
DescriptorOverriding(err, h) ==
    IF err.kind = "nil"
    THEN [statusCode |-> 0, reason |-> <<>>, contentType |-> ""]
    ELSE LET isResult == err.kind = "result"
             code   == IF isResult THEN err.statusCode ELSE StatusBadRequest
             cType  == IF isResult /\ HGet(h, contentType) # ""
                       THEN HGet(h, contentType)
                       ELSE "text/plain; charset=" \o Charset
         IN  [statusCode |-> code, reason |-> err.reason, contentType |-> cType]

\* the maybeErr Complete builds from err; h is t.Response.Header()
Descriptor(err, h) ==
    IF err.kind = "nil"
    THEN [statusCode |-> 0, reason |-> <<>>, contentType |-> ""]
    ELSE LET isResult == err.kind = "result"
             message == err.reason          \* err.Error()
             code   == IF isResult /\ err.statusCode > 0
                       THEN err.statusCode ELSE StatusBadRequest
             reason == IF isResult /\ err.reason # <<>> THEN err.reason ELSE message
             cType  == IF isResult /\ HGet(h, contentType) # ""
                       THEN HGet(h, contentType)
                       ELSE "text/plain; charset=" \o Charset
         IN  [statusCode |-> code, reason |-> reason, contentType |-> cType]

\* w.SetBeforeFlush(cb): cb joins the writer's before-flush list
SetBeforeFlush(bf, w, cb) == [bf EXCEPT ![w] = Append(@, cb)]

\* w.SetContentType(s)
SetContentType(st, w, s) == HeaderSet(st, w, contentType, s)

\* a Transient scope that discards the response whatever the outcome
TransientAlwaysResetting(maybeErr, st, bf, w) ==
    [st |-> Reset(st, w), bf |-> bf, cont |-> TRUE]

\* a scope's EndTransaction gives the store, the callbacks and "can continue"
TransientTransactionScope(maybeErr, st, bf, w) ==
    [st   |-> IF IsFailure(maybeErr) THEN Reset(st, w) ELSE st,
     bf   |-> bf,
     cont |-> TRUE]

\* a Request scope that also discards the response at once, as Transient does
RequestScopeResetting(maybeErr, st, bf, w) ==
    IF IsFailure(maybeErr)
    THEN [st |-> Reset(st, w), bf |-> SetBeforeFlush(bf, w, [w |-> w, err |-> maybeErr]),
          cont |-> FALSE]
    ELSE [st |-> st, bf |-> bf, cont |-> TRUE]

RequestTransactionScope(maybeErr, st, bf, w) ==
    IF IsFailure(maybeErr)
    THEN [st |-> st, bf |-> SetBeforeFlush(bf, w, [w |-> w, err |-> maybeErr]),
          cont |-> FALSE]
    ELSE [st |-> st, bf |-> bf, cont |-> TRUE]

\* linkedTransactionScope.EndTransaction has an empty body and no result:
\* nothing is written and nothing tells Complete to stop the chain
linkedTransactionScope(maybeErr, st, bf, w) ==
    [st |-> st, bf |-> bf, cont |-> TRUE]

EndTransaction(scope, maybeErr, st, bf, w) ==
    CASE scope = "Transient" -> TransientTransactionScope(maybeErr, st, bf, w)
      [] scope = "Request"   -> RequestTransactionScope(maybeErr, st, bf, w)
      [] scope = "Linked"    -> linkedTransactionScope(maybeErr, st, bf, w)

\* a Complete that skips whatever the scope answers
ShouldSkipAlways(canContinue) == TRUE

\* Complete calls t.parent.SkipTransactions() exactly on this condition
ShouldSkip(canContinue) == ~canContinue

\* ctx.EmitError(code): the registered error handler replaces the response
ErrorText == <<"e">>
EmitError(st, code, c) ==
    setBodyString(WriteHeader(Reset(st, Ctx), Ctx, code), Ctx, ErrorText, c)

\* the before-flush callback RequestTransactionScope registers
RunCallback(st, cb, c) ==
    IF cb.err.reason # <<>>
    THEN SetContentType(
             WriteHeader(setBodyString(Reset(st, cb.w), cb.w, cb.err.reason, c),
                         cb.w, cb.err.statusCode),
             cb.w, cb.err.contentType)
    ELSE EmitError(st, cb.err.statusCode, c)


\* ------------------------------------------------------ the request

NoTx    == [w |-> 0, scope |-> "none", hasError |-> FALSE, failure |-> FALSE,
            pure |-> FALSE]
NoArg   == [none |-> TRUE]
NoPrev  == [scope |-> "none", failure |-> FALSE, err |-> NilError, maybeErr |-> NilError]
Fresh   == [ok |-> TRUE, s |-> <<>>]
Unknown == [ok |-> FALSE, s |-> <<>>]

\* writers handler code can reach at this point of the request
Live == CASE ops >= lim.ops -> {}
          [] pc = "flow"   -> {Ctx}
          [] pc = "tx"     -> {Ctx, tx.w}
          [] OTHER         -> {}

\* writers a pending before-flush callback refers to
Captured(bf) == UNION {{bf[w][i].w : i \in 1..Len(bf[w])} : w \in Writers}

InitRequest ==
    /\ statusCode  = [w \in Writers |-> 0]
    /\ headers     = [w \in Writers |-> IF w = Ctx THEN "sink" ELSE "nil"]
    /\ beforeFlush = [w \in Writers |-> <<>>]
    /\ sinkHeader  = [k \in HeaderNames |-> <<>>]
    /\ sinkStatus  = 0
    /\ sinkSent    = [k \in HeaderNames |-> <<>>]
    /\ sinkBody    = <<>>
    /\ pc          = "flow"
    /\ tx          = NoTx
    /\ txCount     = 0
    /\ skipped     = FALSE
    /\ skipCalls   = 0
    /\ emitted     = <<>>
    /\ prev        = NoPrev
    /\ linkedFailed = FALSE
    /\ snap        = NoArg
    /\ written     = [w \in Writers |-> IF w = Ctx THEN Fresh ELSE Unknown]
    /\ ops         = 0
    /\ last        = [op |-> "init", w |-> 0, arg |-> NoArg]


sinkOut == <<sinkStatus, sinkSent, sinkBody>>
ctxVars == <<txCount, skipped, skipCalls, emitted, prev, linkedFailed, lim>>

\* the next value of the writers' fields: a clone that neither the running
\* transaction nor a pending callback refers to is reclaimed
Commit(st, bf, t, wr) ==
    LET keep == {Ctx, t.w} \cup Captured(bf)
        b    == [w \in Writers |-> IF w \in keep THEN st.body[w] ELSE NilSlice]
    IN  /\ body'        = b
        /\ mem'         = GC(st.mem, b)
        /\ statusCode'  = [w \in Writers |-> IF w \in keep THEN st.statusCode[w] ELSE 0]
        /\ headers'     = [w \in Writers |-> IF w \in keep THEN st.headers[w] ELSE "nil"]
        /\ sinkHeader'  = st.sinkHeader
        /\ sinkStatus'  = st.sinkStatus
        /\ sinkBody'    = st.sinkBody
        /\ beforeFlush' = bf
        /\ written'     = [w \in Writers |-> IF w \in keep THEN wr[w] ELSE Unknown]
        /\ tx'          = t

\* the running transaction after handler code used writer w; gentle tells
\* whether the operation is a Write, a WriteHeader or a Header() mutation
Touch(w, gentle) ==
    IF pc = "tx" /\ (w = Ctx \/ ~gentle) THEN [tx EXCEPT !.pure = FALSE] ELSE tx

HandlerWrite ==
    /\ \E w \in Live, d \in Data :
         /\ body[w].n + Len(d) <= MaxBody
         /\ \E c \in NewCaps(body[w].n + Len(d)) :
              LET st == Write(Store, w, d, c)
              IN  /\ Commit(st, beforeFlush, Touch(w, TRUE),
                            [written EXCEPT ![w] =
                               IF @.ok THEN [ok |-> TRUE, s |-> @.s \o d] ELSE @])
                  /\ last' = [op |-> "Write", w |-> w, arg |-> WriteReturn(st, w)]
    /\ ops' = ops + 1
    /\ snap' = IF pc = "tx" THEN snap ELSE NoArg
    /\ UNCHANGED <<resultVars, poolVars, sinkSent, ctxVars, pc>>

HandlerSetBody ==
    /\ \E w \in Live, b \in Data :
         /\ Commit(SetBody(Store, w, b), beforeFlush, Touch(w, FALSE),
                   [written EXCEPT ![w] = Unknown])
         /\ last' = [op |-> "SetBody", w |-> w, arg |-> NoArg]
    /\ ops' = ops + 1
    /\ snap' = IF pc = "tx" THEN snap ELSE NoArg
    /\ UNCHANGED <<resultVars, poolVars, sinkSent, ctxVars, pc>>

HandlerResetBody ==
    /\ \E w \in Live :
         /\ Commit(ResetBody(Store, w), beforeFlush, Touch(w, FALSE),
                   [written EXCEPT ![w] = Fresh])
         /\ last' = [op |-> "ResetBody", w |-> w, arg |-> NoArg]
    /\ ops' = ops + 1
    /\ snap' = IF pc = "tx" THEN snap ELSE NoArg
    /\ UNCHANGED <<resultVars, poolVars, sinkSent, ctxVars, pc>>

HandlerResetHeaders ==
    /\ \E w \in Live :
         /\ Commit(ResetHeaders(Store, w), beforeFlush, Touch(w, FALSE), written)
         /\ last' = [op |-> "ResetHeaders", w |-> w, arg |-> NoArg]
    /\ ops' = ops + 1
    /\ snap' = IF pc = "tx" THEN snap ELSE NoArg
    /\ UNCHANGED <<resultVars, poolVars, sinkSent, ctxVars, pc>>

HandlerReset ==
    /\ \E w \in Live :
         /\ Commit(Reset(Store, w), beforeFlush, Touch(w, FALSE),
                   [written EXCEPT ![w] = Fresh])
         /\ last' = [op |-> "Reset", w |-> w, arg |-> NoArg]
    /\ ops' = ops + 1
    /\ snap' = IF pc = "tx" THEN snap ELSE NoArg
    /\ UNCHANGED <<resultVars, poolVars, sinkSent, ctxVars, pc>>

HandlerWriteHeader ==
    /\ \E w \in Live, code \in Codes :
         /\ Commit(WriteHeader(Store, w, code), beforeFlush, Touch(w, TRUE), written)
         /\ last' = [op |-> "WriteHeader", w |-> w, arg |-> NoArg]
    /\ ops' = ops + 1
    /\ snap' = IF pc = "tx" THEN snap ELSE NoArg
    /\ UNCHANGED <<resultVars, poolVars, sinkSent, ctxVars, pc>>

HandlerHeaderSet ==
    /\ \E w \in Live, kv \in HeaderArgs :
         /\ headers[w] = "sink"
         /\ Commit(HeaderSet(Store, w, kv[1], kv[2]), beforeFlush, Touch(w, TRUE), written)
         /\ last' = [op |-> "Header", w |-> w, arg |-> NoArg]
    /\ ops' = ops + 1
    /\ snap' = IF pc = "tx" THEN snap ELSE NoArg
    /\ UNCHANGED <<resultVars, poolVars, sinkSent, ctxVars, pc>>

\* ctx.BeginTransaction up to the call of the pipe: newTransaction(ctx)
BeginTransaction ==
    /\ pc = "flow"
    /\ ~skipped
    /\ txCount < lim.tx
    /\ LET wc == txCount + 2
       IN  /\ Commit(clone(Store, Ctx, wc), beforeFlush,
                     [w |-> wc, scope |-> "Transient", hasError |-> FALSE,
                      failure |-> FALSE, pure |-> TRUE],
                     [written EXCEPT ![wc] = IF body[Ctx].n = 0 THEN Fresh ELSE Unknown])
           /\ last' = [op |-> "clone", w |-> wc, arg |-> NoArg]
    /\ pc' = "tx"
    /\ txCount' = txCount + 1
    /\ snap' = View(Ctx)
    /\ UNCHANGED <<resultVars, poolVars, sinkSent, skipped, skipCalls, emitted, prev, linkedFailed, lim, ops>>

\* t.SetScope(scope), called before the transaction's writer is used
SetScope ==
    /\ pc = "tx"
    /\ last.op = "clone"
    /\ \E scope \in Scopes :
         /\ Commit(Store, beforeFlush, [tx EXCEPT !.scope = scope], written)
         /\ last' = [op |-> "SetScope", w |-> tx.w, arg |-> NoArg]
    /\ UNCHANGED <<resultVars, poolVars, sinkSent, ctxVars, pc, ops, snap>>

Complete ==
    /\ pc = "tx"
    /\ \E err \in Errs :
         LET maybeErr == Descriptor(err, HeaderOf(tx.w))
             r        == EndTransaction(tx.scope, maybeErr, Store, beforeFlush, tx.w)
             skip     == ShouldSkip(r.cont)
         IN  /\ Commit(r.st, r.bf,
                       [tx EXCEPT !.hasError = (err.kind # "nil"),
                                  !.failure = IsFailure(maybeErr)],
                       [written EXCEPT ![tx.w] =
                          IF r.st.body[tx.w] # body[tx.w] THEN Fresh ELSE @])
             /\ skipped'   = (skipped \/ skip)
             /\ skipCalls' = skipCalls + (IF skip THEN 1 ELSE 0)
             /\ prev'      = IF tx.scope = "Request" /\ IsFailure(maybeErr)
                              THEN [scope |-> tx.scope, failure |-> TRUE,
                                    err |-> err, maybeErr |-> maybeErr]
                              ELSE prev
             /\ linkedFailed' = (linkedFailed \/
                                 (tx.scope = "Linked" /\ IsFailure(maybeErr)))
             /\ last'      = [op |-> "Complete", w |-> tx.w,
                              arg |-> [err |-> err, maybeErr |-> maybeErr,
                                       scope |-> tx.scope, cont |-> r.cont,
                                       skip |-> skip,
                                       cTypeH |-> HGet(HeaderOf(tx.w), contentType),
                                       before |-> View(tx.w),
                                       callbacks |-> beforeFlush]]
    /\ pc' = "completed"
    /\ UNCHANGED <<resultVars, poolVars, sinkSent, txCount, emitted, lim, snap, ops>>

\* the context, when the pipe has returned: the transaction's response is
\* appended to the context's writer and its callbacks become the context's
MergeTransaction ==
    /\ pc = "completed"
    /\ body[Ctx].n + body[tx.w].n <= MaxBody
    /\ \E order \in KeyOrders, c \in NewCaps(body[Ctx].n + body[tx.w].n) :
         /\ Commit(writeTo(Store, tx.w, Ctx, order, c),
                   [beforeFlush EXCEPT ![Ctx] = @ \o beforeFlush[tx.w], ![tx.w] = <<>>],
                   NoTx,
                   [written EXCEPT ![Ctx] =
                      IF @.ok THEN [ok |-> TRUE, s |-> @.s \o BodyOf(tx.w)] ELSE @])
         /\ last' = [op |-> "writeTo", w |-> tx.w,
                     arg |-> [scope |-> tx.scope, pure |-> tx.pure,
                              hasError |-> tx.hasError,
                              failure |-> tx.failure]]
    /\ pc' = "flow"
    /\ UNCHANGED <<resultVars, poolVars, sinkSent, ctxVars, ops, snap>>

\* the context, at the end of the request: the callbacks in registration order
RunBeforeFlush ==
    /\ pc \in {"flow", "draining"}
    /\ beforeFlush[Ctx] # <<>>
    /\ LET cb == Head(beforeFlush[Ctx])
       IN  /\ \E c \in NewCaps(1) :
                Commit(RunCallback(Store, cb, c),
                       [beforeFlush EXCEPT ![Ctx] = Tail(@)], tx,
                       [written EXCEPT ![cb.w] = Unknown, ![Ctx] = Unknown])
           /\ emitted' = IF cb.err.reason = <<>>
                         THEN Append(emitted, cb.err.statusCode) ELSE emitted
           /\ last' = [op |-> "beforeFlush", w |-> cb.w, arg |-> cb]
    /\ pc' = "draining"
    /\ snap' = NoArg
    /\ UNCHANGED <<resultVars, poolVars, sinkSent, txCount, skipped, skipCalls, prev, linkedFailed, lim, ops>>

\* what flushResponse hands to the real sink
flushResponse(st, w, order) ==
    LET code == IF st.statusCode[w] = 0 THEN StatusOK ELSE st.statusCode[w]
    IN  [statusCode |-> code,
         sent       |-> st.sinkHeader,
         header     |-> IF st.headers[w] # "nil"
                        THEN FlushHeaders(st.sinkHeader, order, 1) ELSE st.sinkHeader,
         body       |-> IF st.body[w].n > 0 THEN Bytes(st.mem, st.body[w]) ELSE <<>>]

FlushResponse ==
    /\ pc \in {"flow", "draining"}
    /\ beforeFlush[Ctx] = <<>>
    /\ \E order \in KeyOrders :
         LET f == flushResponse(Store, Ctx, order)
         IN  /\ Commit([Store EXCEPT !.statusCode[Ctx] = f.statusCode,
                                     !.sinkHeader = f.header,
                                     !.sinkStatus = f.statusCode,
                                     !.sinkBody   = f.body],
                       beforeFlush, tx, written)
             /\ sinkSent'   = f.sent
    /\ last' = [op |-> "flushResponse", w |-> Ctx, arg |-> View(Ctx)]
    /\ pc' = "flushed"
    /\ snap' = NoArg
    /\ UNCHANGED <<resultVars, poolVars, ctxVars, ops>>

Next ==
    \/ HandlerWrite
    \/ HandlerSetBody
    \/ HandlerResetBody
    \/ HandlerResetHeaders
    \/ HandlerReset
    \/ HandlerWriteHeader
    \/ HandlerHeaderSet
    \/ BeginTransaction
    \/ SetScope
    \/ Complete
    \/ MergeTransaction
    \/ RunBeforeFlush
    \/ FlushResponse

\* the writer rpool.New makes: no body array yet
NewWriter ==
    /\ mem  = [a \in Arrays |-> <<>>]
    /\ body = [w \in Writers |-> NilSlice]

\* a writer an earlier request released: ResetBody kept its array
Recycled == <<"a">>
PooledWriter ==
    /\ mem  = [a \in Arrays |-> IF a = 1 THEN Recycled ELSE <<>>]
    /\ body = [w \in Writers |-> IF w = Ctx THEN [a |-> 1, n |-> 0] ELSE NilSlice]

\* no request is being served
NoRequest ==
    /\ NewWriter
    /\ InitRequest
    /\ lim = [ops |-> 0, tx |-> 0]

\* ------------------------------------------------ TransactionErrResult values

ResultCodes  == (0 - 1)..MaxCode
Reasons      == {<<>>, <<"d">>}
ContentTypes == {"", "json"}

NotAsked == [asked |-> FALSE, is |-> FALSE]
NoResult ==
    /\ errResult = NilError
    /\ answer = NotAsked

\* some caller holds NewTransactionErrResult(statusCode, reason, contentType)
InitResult ==
    /\ errResult \in {NewTransactionErrResult(c, r, t) :
                         c \in ResultCodes, r \in Reasons, t \in ContentTypes}
    /\ answer = NotAsked

\* err.IsFailure()
CallIsFailure ==
    /\ ~answer.asked
    /\ answer' = [asked |-> TRUE, is |-> IsFailure(errResult)]
    /\ UNCHANGED <<errResult, requestVars, poolVars>>

\* ------------------------------------------------------ the writer pool

Instances == 1..MaxReq            \* writers rpool.New can make
Requests  == 1..MaxReq

\* &ResponseWriter{}
ZeroWriter == [made |-> FALSE, sink |-> 0, headers |-> 0, statusCode |-> 0,
               arr |-> <<>>, n |-> 0]
IdleRequest == [pc |-> "idle", w |-> 0, used |-> 0]

EmptyPool ==
    /\ rpool = {}
    /\ inst = [i \in Instances |-> ZeroWriter]
    /\ req = [r \in Requests |-> IdleRequest]
    /\ underline = [r \in Requests |-> [k \in HeaderNames |-> <<>>]]

\* rpool.Get() handing out a writer without taking it from the pool
PoolPeek(p, i) == p

\* rpool.Get() when it hands out the pooled writer i
PoolGet(p, i) == p \ {i}

\* rpool.Put(w)
PoolPut(p, i) == p \cup {i}

\* the writer rpool.New makes when Get does not take a pooled one
PoolNew == CHOOSE i \in Instances :
               ~inst[i].made /\ \A j \in Instances : ~inst[j].made => i <= j

\* the assignments of acquireResponseWriter(underline): s is the sink
acquireResponseWriter(w, s) == [w EXCEPT !.sink = s, !.headers = s]

\* a release that leaves the status code in the writer
releaseKeepingStatus(w) == [w EXCEPT !.headers = 0, !.sink = 0, !.n = 0]

\* the assignments of releaseResponseWriter(w); ResetBody keeps the array
releaseResponseWriter(w) ==
    [w EXCEPT !.headers = 0, !.sink = 0, !.statusCode = 0, !.n = 0]

\* append(w.body, b) for one byte b, a new array having no spare capacity
PoolAppend(w, b) ==
    IF w.n < Len(w.arr)
    THEN [w EXCEPT !.arr = [i \in 1..Len(w.arr) |-> IF i = w.n + 1 THEN b ELSE w.arr[i]],
                   !.n = w.n + 1]
    ELSE [w EXCEPT !.arr = SubSeq(w.arr, 1, w.n) \o <<b>>, !.n = w.n + 1]

\* the sink of request r; every request brings a new one
SinkOf(r) == r

\* acquireResponseWriter(underline) of request r, from rpool.Get to the return
Acquire(r) ==
    /\ req[r].pc = "idle"
    /\ \/ \E i \in rpool :
             /\ rpool' = PoolGet(rpool, i)
             /\ req' = [req EXCEPT ![r] = [pc |-> "ready", w |-> i, used |-> 0]]
             /\ inst' = [inst EXCEPT ![i] = acquireResponseWriter(@, SinkOf(r))]
       \/ /\ \E i \in Instances : ~inst[i].made
          /\ rpool' = rpool
          /\ req' = [req EXCEPT ![r] = [pc |-> "ready", w |-> PoolNew, used |-> 0]]
          /\ inst' = [inst EXCEPT ![PoolNew] =
                         acquireResponseWriter([@ EXCEPT !.made = TRUE], SinkOf(r))]
    /\ underline' = [underline EXCEPT ![SinkOf(r)] = [k \in HeaderNames |-> <<>>]]
    /\ UNCHANGED <<requestVars, resultVars>>

\* request r may call its writer
Serving(r) == req[r].pc \in {"ready", "using"} /\ req[r].used < FewOps

Used(r) == [req EXCEPT ![r].pc = "using", ![r].used = @ + 1]

\* w.Write of one byte
PoolWrite(r) ==
    /\ Serving(r)
    /\ inst[req[r].w].n < MaxBody
    /\ inst' = [inst EXCEPT ![req[r].w] = PoolAppend(@, "a")]
    /\ req' = Used(r)
    /\ UNCHANGED <<rpool, underline, requestVars, resultVars>>

\* w.SetBody of one byte
PoolSetBody(r) ==
    /\ Serving(r)
    /\ inst' = [inst EXCEPT ![req[r].w].arr = <<"a">>, ![req[r].w].n = 1]
    /\ req' = Used(r)
    /\ UNCHANGED <<rpool, underline, requestVars, resultVars>>

\* w.WriteHeader(503)
PoolWriteHeader(r) ==
    /\ Serving(r)
    /\ inst' = [inst EXCEPT ![req[r].w].statusCode = 503]
    /\ req' = Used(r)
    /\ UNCHANGED <<rpool, underline, requestVars, resultVars>>

\* w.Header().Set("x", "v"): w.headers refers to a sink's map
PoolHeaderSet(r) ==
    /\ Serving(r)
    /\ inst[req[r].w].headers # 0
    /\ underline' = [underline EXCEPT ![inst[req[r].w].headers] = HSet(@, "x", "v")]
    /\ req' = Used(r)
    /\ UNCHANGED <<rpool, inst, requestVars, resultVars>>

\* releaseResponseWriter(w) up to rpool.Put
ReleaseClear(r) ==
    /\ req[r].pc \in {"ready", "using"}
    /\ inst' = [inst EXCEPT ![req[r].w] = releaseResponseWriter(@)]
    /\ req' = [req EXCEPT ![r].pc = "cleared"]
    /\ UNCHANGED <<rpool, underline, requestVars, resultVars>>

\* rpool.Put(w); the request is over and its sink is gone
ReleasePut(r) ==
    /\ req[r].pc = "cleared"
    /\ rpool' = PoolPut(rpool, req[r].w)
    /\ req' = [req EXCEPT ![r] = IdleRequest]
    /\ underline' = [underline EXCEPT ![SinkOf(r)] = [k \in HeaderNames |-> <<>>]]
    /\ UNCHANGED <<inst, requestVars, resultVars>>

NextPool ==
    \E r \in Requests :
        \/ Acquire(r)
        \/ PoolWrite(r)
        \/ PoolSetBody(r)
        \/ PoolWriteHeader(r)
        \/ PoolHeaderSet(r)
        \/ ReleaseClear(r)
        \/ ReleasePut(r)

\* ------------------------------------------------------ specifications

\* a request with many transactions and few writer calls
Init ==
    /\ NewWriter
    /\ InitRequest
    /\ lim = [ops |-> FewOps, tx |-> MaxTx]
    /\ NoResult
    /\ EmptyPool

\* a request with few transactions and many writer calls
InitWriter ==
    /\ NewWriter \/ PooledWriter
    /\ InitRequest
    /\ lim = [ops |-> MaxOps, tx |-> FewTx]
    /\ NoResult
    /\ EmptyPool

\* requests taking their writers from the pool and giving them back
InitPool ==
    /\ NoRequest
    /\ NoResult
    /\ EmptyPool

SpecPool == InitPool /\ [][NextPool]_vars

\* TransactionErrResult values and their methods
InitErrResult ==
    /\ NoRequest
    /\ EmptyPool
    /\ InitResult

NextResult == CallIsFailure

SpecResult == InitErrResult /\ [][NextResult]_vars

Spec == Init /\ [][Next]_vars

SpecWriter == InitWriter /\ [][Next]_vars

TypeOK ==
    /\ pc \in {"flow", "tx", "completed", "draining", "flushed"}
    /\ \A w \in Writers : body[w].n <= CapOf(mem, body[w])


\* ------------------------------------------------------ claims

Max(a, b) == CHOOSE m \in {a, b} : m >= a /\ m >= b
NoHeaders == [k \in HeaderNames |-> <<>>]
CompleteStep == pc = "tx" /\ pc' = "completed"
MergeStep    == pc = "completed" /\ pc' = "flow"

\* C1: under the Transient scope, when a transaction whose handler only used
\* Write, WriteHeader and Header() on its writer is completed with a non-nil
\* error (here: one the scope sees as a failure), the context's writer after
\* the merge shows the body, status code and headers it showed when the
\* transaction began.
C1_TransientInvisible ==
    (last.op = "writeTo" /\ last.arg.scope = "Transient"
        /\ last.arg.hasError /\ last.arg.failure /\ last.arg.pure)
    => View(Ctx) = snap

\* C2: under the Request scope, after Complete(NewTransactionErrResult(code,
\* reason, contentType)) with code >= 400 and a non-empty reason, the response
\* committed to the real sink has status code, body reason and content type
\* contentType.
StructuredFailure(e) == e.kind = "result" /\ e.statusCode >= 400 /\ e.reason # <<>>
C2_RequestStructured ==
    (pc = "flushed" /\ prev.scope = "Request" /\ StructuredFailure(prev.err))
    => /\ sinkStatus = prev.err.statusCode
       /\ sinkBody = prev.err.reason
       /\ HGet(sinkSent, contentType) = prev.err.contentType

\* C3: Complete invokes SkipTransactions once when the scope's EndTransaction
\* answers false and not at all when it answers true; under Transient never,
\* under Request exactly when the descriptor is a failure; no other step
\* invokes it.
C3_SkipExactlyOnVeto ==
    [][ /\ CompleteStep =>
            LET a == last'.arg
            IN  /\ skipCalls' = skipCalls + (IF a.cont THEN 0 ELSE 1)
                /\ skipped' = (skipped \/ ~a.cont)
                /\ a.scope = "Transient" => skipCalls' = skipCalls
                /\ a.scope = "Request" =>
                       (skipCalls' = skipCalls + 1) = IsFailure(a.maybeErr)
        /\ ~CompleteStep => skipCalls' = skipCalls /\ skipped' = skipped ]_vars

C3_Witness ==
    /\ last.op = "Complete"
    /\ last.arg.scope = "Request"
    /\ IsFailure(last.arg.maybeErr)
    /\ skipCalls = 1
    /\ skipped

\* C4: under the Request scope, a Complete with a failure whose reason is
\* empty leaves the transaction's writer as it was and does not invoke
\* EmitError; EmitError is invoked by a before-flush callback only, while
\* nothing has been committed to the sink; and when the response has been
\* committed it has been invoked exactly once, with the failure's status code.
EmptyReasonFailure(e) == IsFailure(e) /\ e.reason = <<>>
C5_LinkedVetoesRest ==
    (linkedFailed /\ txCount >= 2) => (skipped /\ pc # "tx")

\* C6: a Write, SetBody, ResetBody, Reset or WriteHeader call on the context's
\* writer or on its clone changes neither the body bytes nor the status code
\* of the other one.
BodyOps == {"Write", "SetBody", "ResetBody", "Reset", "WriteHeader"}
C6_CloneIndependent ==
    [][ (pc = "tx" /\ ops' = ops + 1 /\ last'.op \in BodyOps)
        => \A y \in {Ctx, tx.w} \ {last'.w} :
               /\ BodyOf(y)' = BodyOf(y)
               /\ statusCode'[y] = statusCode[y] ]_vars

\* C7: after Reset() the writer's status code is 0, its body is empty and its
\* headers are those the sink had before any header was added through a
\* buffered writer.
C7_ResetRestores ==
    last.op = "Reset"
    => /\ statusCode[last.w] = 0
       /\ body[last.w].n = 0
       /\ HeaderOf(last.w) = NoHeaders

\* C8: after w.writeTo(t) the target's status code is the greater of the two
\* status codes before the merge; a source with status 0 leaves it unchanged
\* and a merge never lowers it.
C8_MergeStatusMax ==
    [][ MergeStep
        => /\ statusCode'[Ctx] = Max(statusCode[tx.w], statusCode[Ctx])
           /\ statusCode[tx.w] = 0 => statusCode'[Ctx] = statusCode[Ctx]
           /\ statusCode'[Ctx] >= statusCode[Ctx] ]_vars

C8_Witness ==
    /\ last.op = "writeTo"
    /\ last.arg.pure
    /\ snap.statusCode = 0
    /\ statusCode[Ctx] = 503

\* C9: w.writeTo(t) leaves every header name t already carries with exactly
\* the values it had before the merge.
C9_MergeKeepsPresent ==
    [][ MergeStep
        => \A k \in HeaderNames :
               HeaderOf(Ctx)[k] # <<>> => HeaderOf(Ctx)'[k] = HeaderOf(Ctx)[k] ]_vars

\* C10: the body of a writer equals the concatenation, in call order, of the
\* arguments of the Write calls made on it since its body was empty, and
\* every Write returns a nil error.
C10_WritesConcatenate ==
    /\ \A w \in Writers : written[w].ok => BodyOf(w) = written[w].s
    /\ last.op = "Write" => last.arg.err = "nil"

\* C11: until flushResponse is invoked on the context's writer the real sink
\* has received no status line, no header block and no body byte, whatever
\* Write, WriteHeader, SetBody, Reset, clone, writeTo and Complete calls were
\* made; what the sink holds afterwards was handed over by that one
\* flushResponse call.
C11_NothingBeforeFlush ==
    /\ pc # "flushed" => (sinkStatus = 0 /\ sinkBody = <<>> /\ sinkSent = NoHeaders)
    /\ pc = "flushed" => (last.op = "flushResponse" /\ sinkStatus # 0)
    /\ sinkStatus # 0 => pc = "flushed"

C11_Witness ==
    /\ pc = "flushed"
    /\ txCount = MaxTx
    /\ sinkStatus = StatusOK
    /\ sinkBody # <<>>

\* C12: flushResponse sends 200 when the status code is unset and the status
\* code otherwise; the buffered headers are in the sink's header set when the
\* status line is written and nothing is handed to the sink's header set
\* after the status line; the body is written exactly when it is non-empty.
C12_FlushOrder ==
    last.op = "flushResponse"
    => /\ sinkStatus = (IF last.arg.statusCode = 0 THEN StatusOK ELSE last.arg.statusCode)
       /\ sinkSent = last.arg.headers
       /\ sinkHeader = sinkSent
       /\ sinkBody = last.arg.body

\* C13: the descriptor Complete hands to the scope is empty and no failure for
\* a nil err; 400, the message and "text/plain; charset=<charset>" for a plain
\* error; and for a TransactionErrResult the same defaults with the status
\* code replaced when the result's code is positive, the reason replaced when
\* the result's reason is not empty, and the content type replaced by the
\* Content-Type header of the transaction's writer when that header is set.
PlainType == "text/plain; charset=UTF-8"
Classified(err, cTypeH) ==
    CASE err.kind = "nil" ->
             [statusCode |-> 0, reason |-> <<>>, contentType |-> ""]
      [] err.kind = "error" ->
             [statusCode |-> 400, reason |-> err.reason, contentType |-> PlainType]
      [] err.kind = "result" ->
             [statusCode  |-> IF err.statusCode > 0 THEN err.statusCode ELSE 400,
              reason      |-> err.reason,
              contentType |-> IF cTypeH # "" THEN cTypeH ELSE PlainType]
C13_CompleteClassifies ==
    last.op = "Complete"
    => LET a == last.arg
           d == Classified(a.err, a.cTypeH)
       IN  /\ a.maybeErr = d
           /\ a.err.kind = "nil" => ~IsFailure(a.maybeErr)
           /\ a.scope = "Request" => (a.cont = ~IsFailure(d))

C13_Witness ==
    /\ last.op = "Complete"
    /\ last.arg.err = NewTransactionErrResult(0, <<>>, "json")
    /\ last.arg.cTypeH = "v"
    /\ last.arg.maybeErr = [statusCode |-> 400, reason |-> <<>>, contentType |-> "v"]

\* C14: for every TransactionErrResult, IsFailure() answers true exactly when
\* the statusCode is 400 or more: false for 0 and for 399, true for 400 and 401.
C14_IsFailureFrom400 ==
    answer.asked
    => /\ answer.is = (errResult.statusCode >= 400)
       /\ errResult.statusCode \in {0, 399} => ~answer.is
       /\ errResult.statusCode \in {400, 401} => answer.is

C14_Witness ==
    /\ answer.asked
    /\ errResult.statusCode = 400
    /\ answer.is

\* C15: a transaction's hasError flag is false while Complete has not been
\* called, is true after Complete exactly when the descriptor handed to the
\* scope is a failure, and keeps its value until the transaction is merged.
C15_HasErrorIffFailure ==
    /\ pc = "tx" => ~tx.hasError
    /\ pc = "completed" => (tx.hasError = IsFailure(last.arg.maybeErr))
    /\ last.op = "writeTo" => (last.arg.hasError = last.arg.failure)

\* C16: once the context's writer or its clone has called Reset or
\* ResetHeaders, a header set through Header() of one of the two does not
\* show through Header() of the other.
C16_ResetSplitsHeaders ==
    [][ (pc = "tx" /\ last.op \in {"Reset", "ResetHeaders"} /\ last'.op = "Header")
        => \A y \in {Ctx, tx.w} \ {last'.w} : HeaderOf(y)' = HeaderOf(y) ]_vars

\* C17: the writer acquireResponseWriter returns has an empty body, status
\* code 0 and the header map of the new sink, which holds nothing an earlier
\* request set; and a writer in the pool refers to no sink and to no header
\* map.
C17_AcquiredIsClean ==
    /\ \A r \in Requests :
           req[r].pc = "ready"
           => LET w == inst[req[r].w]
              IN  /\ w.n = 0
                  /\ w.statusCode = 0
                  /\ w.sink = SinkOf(r)
                  /\ w.headers = SinkOf(r)
                  /\ underline[w.headers] = NoHeaders
    /\ \A i \in rpool : inst[i].sink = 0 /\ inst[i].headers = 0

C17_Witness ==
    \E r \in Requests :
        /\ req[r].pc = "ready"
        /\ inst[req[r].w].arr # <<>>
        /\ rpool # {}

\* C18: no writer is held by two requests at the same time, from the Get of
\* one request's acquire to the Put of its release, and a writer a request
\* holds is not in the pool.
Holds(r) == req[r].pc # "idle"
C18_OneOwner ==
    /\ \A r1, r2 \in Requests :
           (r1 # r2 /\ Holds(r1) /\ Holds(r2)) => req[r1].w # req[r2].w
    /\ \A r \in Requests : Holds(r) => req[r].w \notin rpool

C18_Witness ==
    /\ \A r \in Requests : req[r].pc = "using" /\ inst[req[r].w].arr # <<>>
    /\ \E r \in Requests : inst[req[r].w].n = 0

\* C19: when a transaction whose handler only wrote through the transaction's
\* writer completes with a nil error and is merged, the context's body is the
\* body P it had when the transaction was created followed by the bytes X
\* written through the transaction's writer.
C19_MergeAppendsOnlyNew ==
    [][ (MergeStep /\ tx.pure /\ ~tx.hasError)
        => LET P == snap.body
               T == BodyOf(tx.w)
               X == SubSeq(T, Len(P) + 1, Len(T))
           IN  BodyOf(Ctx)' = P \o X ]_vars

====
